---- MODULE Spec2Model ----
(***************************************************************************)
(* Trilium backup service (backup/backup.py) and restore helper            *)
(* (backup/restore.py): the checksum ledger, the archive builder, the      *)
(* backup cycle, the scheduler loop and the guarded restore.               *)
(*                                                                         *)
(* Files are modelled by their content (a small natural number) or Absent; *)
(* an archive is the sequence of its tar members plus its manifest member  *)
(* backup-metadata.json.  External tools (sqlite3, gpg, rclone, docker)    *)
(* are nondeterministic outcomes: exit 0, non-zero exit, timeout.          *)
(***************************************************************************)
EXTENDS Integers, Sequences, FiniteSets, TLC

\* ---------------------------------------------------------------- bounds
\* file contents are 0..MaxData
MaxData == 1
\* longest member list of an archive handed to verify_backup on its own
MaxMembers == 2
\* writes of the live application during one backup cycle
MaxLiveWrites == 1
\* longest backup cycle, in schedule ticks
MaxDur == 3
\* largest distance the clock may run ahead of the cron iterator
MaxLag == 4
\* the oldest a file of /backups is, in days
MaxAge == 2
MaxClock == 3

\* ---------------------------------------------------------------- files
Data == 0..MaxData
\* a path for which Path.exists() is false
Absent == -1
MANIFEST == "backup-metadata.json"

\* tar_trilium_data: the auxiliary files read from the live data directory
important_files == <<"document.db-shm", "document.db-wal", "config.ini", "session_secret.txt">>

\* run_restore: the allow-list, with the required flag
files_to_restore_all_optional ==
  << [name |-> "document.db",        required |-> FALSE],
     [name |-> "document.db-shm",    required |-> FALSE],
     [name |-> "document.db-wal",    required |-> FALSE],
     [name |-> "config.ini",         required |-> FALSE],
     [name |-> "session_secret.txt", required |-> FALSE] >>
files_to_restore ==
  << [name |-> "document.db",        required |-> TRUE],
     [name |-> "document.db-shm",    required |-> FALSE],
     [name |-> "document.db-wal",    required |-> FALSE],
     [name |-> "config.ini",         required |-> TRUE],
     [name |-> "session_secret.txt", required |-> TRUE] >>

Range(s) == {s[i] : i \in DOMAIN s}
AuxNames == Range(important_files)
AllowNames == {files_to_restore[i].name : i \in DOMAIN files_to_restore}
LOGFILE == "log/trilium.log"
MemberNames == AllowNames \cup {LOGFILE}

\* hashlib.sha256(...).hexdigest(): a digest of the content, injective on Data
\* and different from the content itself
sha256(d) == (d * 5 + 3) % 11
calculate_checksum(d) == sha256(d)
Digests == {sha256(d) : d \in Data}

\* ---------------------------------------------------------------- archives
\* mkind: the manifest member backup-metadata.json is
\*   "missing"  not in the archive (tar.getmember raises KeyError)
\*   "notfile"  a member that is no regular file (tar.extractfile gives None)
\*   "garbage"  a regular file that json.loads rejects
\*   "ok"       a JSON object; files is its 'files' mapping (name -> digest)
ManifestKinds == {"missing", "notfile", "garbage", "ok"}
Member(n, f, d) == [name |-> n, isfile |-> f, data |-> d]
EmptyFiles == [n \in {} |-> 0]
EmptyArchive == [members |-> << >>, mkind |-> "missing", files |-> EmptyFiles]

\* verify_backup, lines 294-304: the loop over tar.getmembers(); acc is
\* (all_ok, the member names printed as "Checksum mismatch")
RECURSIVE verify_loop_shortcircuit(_, _, _, _)
verify_loop_shortcircuit(members, checksums, i, acc) ==
  IF i > Len(members) \/ ~acc.all_ok THEN acc
  ELSE LET m == members[i]
           bad == /\ m.isfile
                  /\ m.name \in DOMAIN checksums
                  /\ sha256(m.data) # checksums[m.name]
       IN verify_loop_shortcircuit(members, checksums, i + 1,
            IF bad THEN [all_ok |-> FALSE, printed |-> acc.printed \cup {m.name}]
                   ELSE acc)

RECURSIVE verify_loop(_, _, _, _)
verify_loop(members, checksums, i, acc) ==
  IF i > Len(members) THEN acc
  ELSE LET m == members[i]
           bad == /\ m.isfile
                  /\ m.name \in DOMAIN checksums
                  /\ sha256(m.data) # checksums[m.name]
       IN verify_loop(members, checksums, i + 1,
            IF bad THEN [all_ok |-> FALSE, printed |-> acc.printed \cup {m.name}]
                   ELSE acc)

\* verify_backup(backup_path): the verdict (ok), how it was reached (outcome)
\* and the mismatching member names it printed
verify_backup_always_ok(arch) ==
  [ok |-> TRUE, outcome |-> "verified", printed |-> {}]

verify_backup(arch) ==
  CASE arch.mkind = "missing" ->
         \* getmember raises KeyError, caught by `except Exception` (316-318)
         [ok |-> FALSE, outcome |-> "error", printed |-> {}]
    [] arch.mkind = "garbage" ->
         \* json.loads raises, caught by `except Exception` (316-318)
         [ok |-> FALSE, outcome |-> "error", printed |-> {}]
    [] arch.mkind = "notfile" ->
         \* extractfile returns None: falls through to lines 313-314
         [ok |-> TRUE, outcome |-> "unverifiable", printed |-> {}]
    [] OTHER ->
         LET r == verify_loop(arch.members, arch.files, 1,
                              [all_ok |-> TRUE, printed |-> {}])
         IN IF r.all_ok
            THEN [ok |-> TRUE,  outcome |-> "verified", printed |-> r.printed]
            ELSE [ok |-> FALSE, outcome |-> "failed",   printed |-> r.printed]

NoVerdict == [ok |-> FALSE, outcome |-> "none", printed |-> {}]

\* ---------------------------------------------------------------- state
VARIABLES
  live,      \* the live data directory: file name -> content or Absent
  safety,    \* the safety snapshots trilium-data-safety-<ts>, by timestamp
  rs,        \* run_restore: its arguments, locals, position and what it did
  bk,        \* run_backup: configuration, locals, position and what it did
  sch,       \* main of backup.py: the scheduler loop
  vf,        \* verify_backup applied to an archive on its own
  cr,        \* encrypt_archive, then decrypt_backup, on a file of /backups
  mn         \* main of restore.py: its arguments, position and exit code

vars == <<live, safety, rs, bk, sch, vf, cr, mn>>

LiveNames == AllowNames \cup {LOGFILE}
NoFiles == [n \in LiveNames |-> Absent]
NoSafety == [exists |-> FALSE, complete |-> FALSE, files |-> NoFiles]
\* datetime.now().strftime('%Y%m%d-%H%M%S') of a restore run: two runs get
\* the same timestamp or different ones
Stamps == {"t1", "t2"}
NoSnapshots == [t \in Stamps |-> NoSafety]

\* ---------------------------------------------------------------- verify_backup on its own
\* members: regular files of every content, and a directory entry "log"; the
\* manifest lists some of the individually named files, never the log subtree
VerifyNames == {"document.db", "config.ini", LOGFILE}
VerifyMembers ==
  {Member(n, TRUE, d) : n \in VerifyNames, d \in Data} \cup {Member("config.ini", FALSE, 0)}
SeqsUpTo(S, n) == UNION {[1..k -> S] : k \in 0..n}
VerifyFiles == UNION {[K -> Digests] : K \in SUBSET (VerifyNames \ {LOGFILE})}
VerifyArchives ==
  {[members |-> ms, mkind |-> "ok", files |-> fs] :
      ms \in SeqsUpTo(VerifyMembers, MaxMembers), fs \in VerifyFiles}
  \cup
  {[members |-> ms, mkind |-> k, files |-> EmptyFiles] :
      ms \in SeqsUpTo(VerifyMembers, MaxMembers), k \in ManifestKinds \ {"ok"}}

VfIdle == [arch |-> EmptyArchive, verdict |-> NoVerdict, corrupted |-> {}]

\* verify_backup(backup_path) is called on the archive
VerifyBackup ==
  /\ vf.verdict.outcome = "none"
  /\ vf' = [vf EXCEPT !.verdict = verify_backup(vf.arch)]
  /\ UNCHANGED <<live, safety, rs, bk, sch, cr, mn>>

\* one archived member is corrupted after creation (its bytes change); the
\* archive is then verified again
CorruptMember ==
  /\ vf.verdict.outcome # "none"
  /\ vf.corrupted = {}
  /\ \E i \in DOMAIN vf.arch.members : \E d \in Data \ {vf.arch.members[i].data} :
       vf' = [vf EXCEPT !.arch.members[i].data = d,
                        !.verdict = NoVerdict,
                        !.corrupted = {i}]
  /\ UNCHANGED <<live, safety, rs, bk, sch, cr, mn>>

\* ---------------------------------------------------------------- run_restore
\* the members of an archive as tar_trilium_data orders them
AllowOrder == <<"document.db", "document.db-shm", "document.db-wal", "config.ini", "session_secret.txt">>
MembersOf(S, d) ==
  LET names == SelectSeq(AllowOrder \o <<LOGFILE>>, LAMBDA n : n \in S)
  IN [i \in DOMAIN names |-> Member(names[i], TRUE, d)]

\* the archives handed to run_restore: regular members with content 1, and a
\* manifest that is missing, unreadable, correct, or wrong about one member
RestoreMemberSets ==
  { AllowNames,
    (AllowNames \ {"document.db-shm", "document.db-wal"}) \cup {LOGFILE},
    AllowNames \ {"document.db-shm", "document.db-wal"},
    AllowNames \ {"document.db-wal"},
    AllowNames \ {"config.ini"},
    AllowNames \ {"session_secret.txt"},
    AllowNames \ {"document.db"} }
RestoreArchives ==
  {[members |-> MembersOf(S, 1), mkind |-> k, files |-> EmptyFiles] :
      S \in RestoreMemberSets, k \in ManifestKinds \ {"ok"}}
  \cup
  {[members |-> MembersOf(S, 1), mkind |-> "ok", files |-> [n \in S \ {LOGFILE} |-> sha256(1)]] :
      S \in RestoreMemberSets}
  \cup
  {[members |-> MembersOf(S, 1), mkind |-> "ok",
    files |-> [n \in S \ {LOGFILE} |-> IF n \in B THEN sha256(0) ELSE sha256(1)]] :
      S \in RestoreMemberSets, B \in {{"document.db"}, {"config.ini"}, {"document.db", "config.ini"}}}

\* two archives that verify: a complete one, and one without config.ini
SnArchives ==
  {[members |-> MembersOf(S, 1), mkind |-> "ok", files |-> [n \in S |-> sha256(1)]] :
      S \in {AllowNames, AllowNames \ {"config.ini"}}}

\* the live data directory before a restore: content 0, side files optional
RestoreLives ==
  {[n \in LiveNames |-> IF n \in gone THEN Absent ELSE 0] :
      gone \in SUBSET {"document.db-shm", "document.db-wal"}}

\* some manifest-listed regular member does not hash to its recorded digest
HasMismatch(arch) ==
  /\ arch.mkind = "ok"
  /\ \E i \in DOMAIN arch.members :
       /\ arch.members[i].isfile
       /\ arch.members[i].name \in DOMAIN arch.files
       /\ sha256(arch.members[i].data) # arch.files[arch.members[i].name]

\* tar.extractall(path=work_dir): the regular members, a later member of the
\* same name replacing an earlier one
Extracted(arch) ==
  [n \in MemberNames |->
     LET at == {i \in DOMAIN arch.members :
                  arch.members[i].name = n /\ arch.members[i].isfile}
     IN IF at = {} THEN Absent
        ELSE arch.members[CHOOSE i \in at : \A j \in at : j <= i].data]

NoWork == [n \in MemberNames |-> Absent]

RsIdle ==
  [pc |-> "idle", force |-> FALSE, backup_exists |-> FALSE, datadir_exists |-> FALSE,
   encrypted |-> FALSE, arch |-> EmptyArchive, container |-> "unknown",
   prompted |-> FALSE, snapshot |-> "none", decrypted |-> FALSE,
   verdict |-> NoVerdict, work_exists |-> FALSE, work_created |-> FALSE,
   work |-> NoWork, i |-> 1, touched |-> {}, reported |-> FALSE,
   result |-> "none", live0 |-> NoFiles, stamp |-> "t1", run |-> 1,
   env_key |-> "", used |-> "", asked |-> FALSE, app_running |-> FALSE]

\* run_restore(backup_path, trilium_data_dir, force) is entered
RsStarts ==
  {[RsIdle EXCEPT !.pc = "start", !.force = f, !.backup_exists = be,
                  !.datadir_exists = de, !.encrypted = e, !.arch = a,
                  !.app_running = ar] :
      f \in BOOLEAN, be \in BOOLEAN, de \in BOOLEAN, e \in BOOLEAN,
      a \in RestoreArchives, ar \in BOOLEAN}

RsFail(r) == [r EXCEPT !.pc = "done", !.result = "false"]

\* lines 328-334: the backup file and the data directory must exist
RsCheckPaths ==
  /\ rs.pc = "start"
  /\ rs' = IF ~rs.backup_exists \/ ~rs.datadir_exists
           THEN RsFail(rs)
           ELSE [rs EXCEPT !.pc = "check_running"]
  /\ UNCHANGED <<live, safety, bk, sch, vf, cr, mn>>

\* what `docker ps --filter name=trilium` can give: the name of the running
\* container, nothing when none runs, and whatever the application does
\* the query raising ("error": no docker binary, timeout) or printing
\* nothing because the runtime does not answer ("silent")
DockerPs(app_running) ==
  (IF app_running THEN {"running"} ELSE {"stopped"}) \cup {"error", "silent"}

\* lines 336-352: docker ps; an exception of the query is caught and warned
RsCheckRunning_no_abort ==
  /\ rs.pc = "check_running"
  /\ \E out \in DockerPs(rs.app_running) :
       rs' = [rs EXCEPT !.container = out, !.pc = "confirm"]
  /\ UNCHANGED <<live, safety, bk, sch, vf, cr, mn>>

RsCheckRunning ==
  /\ rs.pc = "check_running"
  /\ \E out \in DockerPs(rs.app_running) :
       rs' = IF out = "running" /\ ~rs.force
             THEN RsFail([rs EXCEPT !.container = out])
             ELSE [rs EXCEPT !.container = out, !.pc = "confirm"]
  /\ UNCHANGED <<live, safety, bk, sch, vf, cr, mn>>

\* lines 354-360: the confirmation prompt, skipped with force
RsConfirm ==
  /\ rs.pc = "confirm"
  /\ \/ /\ rs.force
        /\ rs' = [rs EXCEPT !.pc = "safety"]
     \/ /\ ~rs.force
        /\ \E answer \in {"RESTORE", "no"} :
             rs' = IF answer # "RESTORE"
                   THEN RsFail([rs EXCEPT !.prompted = TRUE])
                   ELSE [rs EXCEPT !.prompted = TRUE, !.pc = "safety"]
  /\ UNCHANGED <<live, safety, bk, sch, vf, cr, mn>>

\* shutil.copytree(src, dst): what it returns and what is at dst afterwards.
\* An existing dst makes it raise before anything is written; otherwise the
\* tree is copied, or the copy fails and may leave a partial tree behind
copytree_dirs_exist_ok(src, dst) ==
  {[ok |-> TRUE, tree |-> [exists |-> TRUE, complete |-> TRUE, files |-> src]]}
  \cup {[ok |-> FALSE, tree |-> [exists |-> partial, complete |-> FALSE, files |-> NoFiles]] :
          partial \in BOOLEAN}
copytree(src, dst) ==
  IF dst.exists
  THEN {[ok |-> FALSE, tree |-> dst]}
  ELSE {[ok |-> TRUE, tree |-> [exists |-> TRUE, complete |-> TRUE, files |-> src]]}
       \cup {[ok |-> FALSE, tree |-> [exists |-> partial, complete |-> FALSE, files |-> NoFiles]] :
               partial \in BOOLEAN}

\* lines 362-371: the live directory is copied to the sibling path
\* trilium-data-safety-<ts>; a failed copy ends the run unless force is set
RsSafety_ignore_failure ==
  /\ rs.pc = "safety"
  /\ \E c \in copytree(live, safety[rs.stamp]) :
       /\ safety' = [safety EXCEPT ![rs.stamp] = c.tree]
       /\ rs' = [rs EXCEPT !.snapshot = IF c.ok THEN "created" ELSE "failed", !.pc = "decrypt"]
  /\ UNCHANGED <<live, bk, sch, vf, cr, mn>>

RsSafety ==
  /\ rs.pc = "safety"
  /\ \E c \in copytree(live, safety[rs.stamp]) :
       /\ safety' = [safety EXCEPT ![rs.stamp] = c.tree]
       /\ rs' = IF c.ok
                THEN [rs EXCEPT !.snapshot = "created", !.pc = "decrypt"]
                ELSE IF ~rs.force
                THEN RsFail([rs EXCEPT !.snapshot = "failed"])
                ELSE [rs EXCEPT !.snapshot = "failed", !.pc = "decrypt"]
  /\ UNCHANGED <<live, bk, sch, vf, cr, mn>>

\* lines 373-379: decrypt_backup(backup_path) when the path ends in .gpg. It
\* is called without a passphrase argument, so (restore.py 252-254) the
\* passphrase is BACKUP_ENCRYPTION_KEY or, when that is empty, what the
\* operator types at the prompt
RsDecrypt ==
  /\ rs.pc = "decrypt"
  /\ \/ /\ ~rs.encrypted
        /\ rs' = [rs EXCEPT !.pc = "verify"]
     \/ /\ rs.encrypted
        /\ \E gpg_ok \in BOOLEAN :
             LET r == IF rs.env_key # ""
                      THEN [rs EXCEPT !.used = rs.env_key]
                      ELSE [rs EXCEPT !.used = "typed", !.asked = TRUE]
             IN rs' = IF gpg_ok
                      THEN [r EXCEPT !.decrypted = TRUE, !.pc = "verify"]
                      ELSE RsFail(r)
  /\ UNCHANGED <<live, safety, bk, sch, vf, cr, mn>>

\* lines 381-384: verify_backup decides whether the restore goes on
RsVerify ==
  /\ rs.pc = "verify"
  /\ LET v == verify_backup(rs.arch)
     IN rs' = IF v.ok
              THEN [rs EXCEPT !.verdict = v, !.pc = "mkdir"]
              ELSE RsFail([rs EXCEPT !.verdict = v])
  /\ UNCHANGED <<live, safety, bk, sch, vf, cr, mn>>

\* lines 388-391: the work directory is created and the try block entered
RsMkdir ==
  /\ rs.pc = "mkdir"
  /\ rs' = [rs EXCEPT !.work_exists = TRUE, !.work_created = TRUE, !.pc = "extract"]
  /\ UNCHANGED <<live, safety, bk, sch, vf, cr, mn>>

\* lines 424-427: `except Exception` reports the safety snapshot
RsExcept(r) == [r EXCEPT !.pc = "finally", !.result = "false", !.reported = TRUE]

\* lines 392-393: the archive is extracted into the work directory
RsExtract ==
  /\ rs.pc = "extract"
  /\ \E tar_ok \in BOOLEAN :
       rs' = IF tar_ok
             THEN [rs EXCEPT !.work = Extracted(rs.arch), !.i = 1, !.pc = "copy"]
             ELSE RsExcept(rs)
  /\ UNCHANGED <<live, safety, bk, sch, vf, cr, mn>>

\* lines 404-413: one turn of the loop over files_to_restore
RsCopy ==
  /\ rs.pc = "copy"
  /\ rs.i <= Len(files_to_restore)
  /\ LET f == files_to_restore[rs.i]
     IN IF rs.work[f.name] # Absent
        THEN \/ /\ live' = [live EXCEPT ![f.name] = rs.work[f.name]]
                /\ rs' = [rs EXCEPT !.touched = @ \cup {f.name}, !.i = @ + 1]
             \/ /\ rs' = RsExcept(rs)       \* shutil.copy2 raises
                /\ UNCHANGED live
        ELSE /\ rs' = IF f.required
                      THEN [rs EXCEPT !.pc = "finally", !.result = "false"]
                      ELSE [rs EXCEPT !.i = @ + 1]
             /\ UNCHANGED live
  /\ UNCHANGED <<safety, bk, sch, vf, cr, mn>>

\* lines 415-422: every listed file was handled
RsReturnTrue ==
  /\ rs.pc = "copy"
  /\ rs.i > Len(files_to_restore)
  /\ rs' = [rs EXCEPT !.pc = "finally", !.result = "true"]
  /\ UNCHANGED <<live, safety, bk, sch, vf, cr, mn>>

\* lines 429-432: the finally clause removes the work directory
RsFinally_keep ==
  /\ rs.pc = "finally"
  /\ rs' = [rs EXCEPT !.work_exists = (rs.result # "true"), !.pc = "done"]
  /\ UNCHANGED <<live, safety, bk, sch, vf, cr, mn>>

RsFinally ==
  /\ rs.pc = "finally"
  /\ rs' = [rs EXCEPT !.work_exists = FALSE, !.work = NoWork, !.pc = "done"]
  /\ UNCHANGED <<live, safety, bk, sch, vf, cr, mn>>

\* KeyboardInterrupt (main, lines 537-539): not an Exception, so only the
\* finally clause runs when it arrives inside the try block
RsInterrupt ==
  /\ rs.pc \notin {"idle", "done", "finally"}
  /\ rs' = IF rs.pc \in {"extract", "copy"}
           THEN [rs EXCEPT !.pc = "finally", !.result = "interrupt"]
           ELSE [rs EXCEPT !.pc = "done", !.result = "interrupt"]
  /\ UNCHANGED <<live, safety, bk, sch, vf, cr, mn>>

run_restore ==
  \/ RsCheckPaths \/ RsCheckRunning \/ RsConfirm \/ RsSafety \/ RsDecrypt
  \/ RsVerify \/ RsMkdir \/ RsExtract \/ RsCopy \/ RsReturnTrue \/ RsFinally
  \/ RsInterrupt

\* ---------------------------------------------------------------- run_backup
\* subprocess.run(..., timeout=SUBPROCESS_TIMEOUT): exit 0, non-zero exit, or
\* TimeoutExpired raised
ToolOutcomes == {"ok", "fail", "timeout"}
ErrorOf(outcome) == IF outcome = "timeout" THEN "TimeoutExpired" ELSE "RuntimeError"

\* BACKUP_RCLONE_DESTINATIONS as a sequence of characters
DestStrings ==
  { << >>, <<",">>, <<" ">>, <<"A">>, <<"A", ",", " ", "B">> }

\* str.split(','): the pieces between the commas, empty pieces included
RECURSIVE split(_, _, _)
split(s, i, piece) ==
  IF i > Len(s) THEN <<piece>>
  ELSE IF s[i] = "," THEN <<piece>> \o split(s, i + 1, << >>)
  ELSE split(s, i + 1, Append(piece, s[i]))

\* str.strip(): leading and trailing blanks removed
RECURSIVE lstrip(_)
lstrip(d) == IF d # << >> /\ Head(d) = " " THEN lstrip(Tail(d)) ELSE d
RECURSIVE rstrip(_)
rstrip(d) == IF d # << >> /\ d[Len(d)] = " " THEN rstrip(SubSeq(d, 1, Len(d) - 1)) ELSE d
strip(d) == rstrip(lstrip(d))

\* [d.strip() for d in BACKUP_RCLONE_DESTINATIONS.split(',') if d.strip()]
destinations(s) ==
  LET parts == split(s, 1, << >>)
      stripped == [k \in DOMAIN parts |-> strip(parts[k])]
  IN SelectSeq(stripped, LAMBDA d : d # << >>)

\* `if not BACKUP_RCLONE_DESTINATIONS`: an empty string is false
Truthy(s) == Len(s) > 0

\* BACKUP_RETENTION_DAYS
Retentions == -1..(MaxAge - 1)

\* an entry of /backups: a name made of a prefix, the timestamp that gives it
\* its age, and an ending; whether it is a regular file; its mtime as age in days
Entry(prefix, ext, is_file, age) ==
  [prefix |-> prefix, ext |-> ext, is_file |-> is_file, age |-> age]
OldArchive(age) == Entry("trilium-backup-", ".tar.gz", TRUE, age)
OldDirectory(age) == Entry("trilium-backup-", "", FALSE, age)
OtherFile(age) == Entry("restore-log-", ".txt", TRUE, age)
Entries == UNION {{OldArchive(a), OldDirectory(a), OtherFile(a)} : a \in 0..MaxAge}
Listings == {l \in SUBSET Entries : Cardinality(l) <= 2}

\* BACKUP_DIR.glob('trilium-backup-*')
glob(listing) == {f \in listing : f.prefix = "trilium-backup-"}

\* cleanup_old_backups, lines 230-245: what is left of the listing; mtime <
\* now - window means an age above the window
cleanup_old_backups_no_file_test(listing, retention) ==
  IF retention <= 0 THEN listing
  ELSE listing \ {f \in glob(listing) : f.age > retention}
cleanup_old_backups(listing, retention) ==
  IF retention <= 0 THEN listing
  ELSE listing \ {f \in glob(listing) : f.is_file /\ f.age > retention}

\* a path of /backups: the name up to its first dot, then its dot-separated endings
Path(stem, suffixes) == [stem |-> stem, suffixes |-> suffixes]
\* Path.suffix: the last ending, "" when there is none
suffix(p) == IF p.suffixes = << >> THEN "" ELSE p.suffixes[Len(p.suffixes)]
\* Path.with_suffix(s): the last ending replaced by the endings of s
with_suffix(p, s) ==
  [p EXCEPT !.suffixes = (IF @ = << >> THEN @ ELSE SubSeq(@, 1, Len(@) - 1)) \o s]

\* backup.py line 181: archive_path.with_suffix(archive_path.suffix + '.gpg')
encrypted_path_replaces_suffix(archive_path) ==
  with_suffix(archive_path, <<"gpg">>)
encrypted_path(archive_path) ==
  with_suffix(archive_path,
              (IF suffix(archive_path) = "" THEN << >> ELSE <<suffix(archive_path)>>) \o <<"gpg">>)

\* line 310: strftime('%Y%m%d-%H%M%S') of a UTC instant counted in seconds:
\* the day and the second of the day
DayLen == 2
strftime(t) == [ymd |-> t \div DayLen, hms |-> t % DayLen]
NoStamp == [ymd |-> -1, hms |-> -1]
\* line 323: f"trilium-backup-{timestamp}.tar.gz"
archive_name(timestamp) == Path(<<"trilium-backup-", timestamp>>, <<"tar", "gz">>)
NoName == Path(<< >>, << >>)
\* the pattern 'trilium-backup-*' of the pruning steps and of the restore
\* tool's listings
fnmatch(name) == name.stem # << >> /\ name.stem[1] = "trilium-backup-"

BkIdle ==
  [pc |-> "idle", destinations |-> << >>, key |-> FALSE, delete_local |-> FALSE,
   work_exists |-> FALSE, work_created |-> FALSE, snapshot |-> Absent,
   checksums |-> EmptyFiles, files_to_add |-> << >>, i |-> 1,
   arch |-> EmptyArchive, local |-> "none", final |-> "none",
   attempts |-> << >>, remote |-> {}, upload_returned |-> FALSE,
   notifs |-> << >>, error |-> "none", result |-> "none", writes |-> 0,
   enc |-> "none", retention |-> 0, old |-> {}, old0 |-> {},
   prune_local |-> "none", prune_remote |-> << >>, sqlite |-> "none",
   smtp |-> FALSE, webhook |-> FALSE, deliveries |-> << >>,
   now |-> 0, started |-> 0, timestamp |-> NoStamp,
   archive_path |-> NoName, final_path |-> NoName]

\* run_backup() is entered under every configuration
BkStarts ==
  {[BkIdle EXCEPT !.pc = "start", !.destinations = ds, !.key = k, !.delete_local = dl,
                  !.retention = 1, !.old = {OldArchive(MaxAge)}, !.old0 = {OldArchive(MaxAge)}] :
      ds \in DestStrings, k \in BOOLEAN, dl \in BOOLEAN}

\* the live data directory before a backup cycle
BackupGone ==
  { {}, {"document.db-shm", "document.db-wal"}, {"config.ini"}, {"session_secret.txt"},
    AuxNames, {"document.db"}, {LOGFILE} }
BackupLives ==
  {[n \in LiveNames |-> IF n \in gone THEN Absent ELSE 0] : gone \in BackupGone}

\* an exception leaves the try block for `except Exception` (line 350)
BkRaise(b, err) == [b EXCEPT !.pc = "except", !.error = err]

\* lines 310-312: the work directory is created, the try block entered
BkMkdir ==
  /\ bk.pc = "start"
  /\ bk' = [bk EXCEPT !.timestamp = strftime(bk.now),
                       !.work_exists = TRUE, !.work_created = TRUE, !.pc = "metadata"]
  /\ UNCHANGED <<live, safety, rs, sch, vf, cr, mn>>

\* line 316, create_metadata: its own failures are caught and logged
BkCreateMetadata ==
  /\ bk.pc = "metadata"
  /\ bk' = [bk EXCEPT !.pc = "sqlite"]
  /\ UNCHANGED <<live, safety, rs, sch, vf, cr, mn>>

\* line 320, run_sqlite_backup: the hot backup into work_dir/document.db; a
\* missing database, a non-zero exit and a timeout raise
BkSqliteBackup_ignore_exit ==
  /\ bk.pc = "sqlite"
  /\ IF live["document.db"] = Absent
     THEN bk' = BkRaise([bk EXCEPT !.sqlite = "absent"], "RuntimeError")
     ELSE \E out \in ToolOutcomes :
            bk' = IF out # "timeout"
                  THEN [bk EXCEPT !.sqlite = out,
                                  !.snapshot = IF out = "ok" THEN live["document.db"] ELSE Absent,
                                  !.pc = "tar_start"]
                  ELSE BkRaise([bk EXCEPT !.sqlite = out], ErrorOf(out))
  /\ UNCHANGED <<live, safety, rs, sch, vf, cr, mn>>

BkSqliteBackup ==
  /\ bk.pc = "sqlite"
  /\ IF live["document.db"] = Absent
     THEN bk' = BkRaise([bk EXCEPT !.sqlite = "absent"], "RuntimeError")
     ELSE \E out \in ToolOutcomes :
            bk' = IF out = "ok"
                  THEN [bk EXCEPT !.sqlite = "ok", !.snapshot = live["document.db"],
                                  !.pc = "tar_start"]
                  ELSE BkRaise([bk EXCEPT !.sqlite = out], ErrorOf(out))
  /\ UNCHANGED <<live, safety, rs, sch, vf, cr, mn>>

\* lines 323-324 and tar_trilium_data, lines 122-129: the archive is named,
\* the SQLite backup is listed and hashed
BkTarStart ==
  /\ bk.pc = "tar_start"
  /\ bk' = IF bk.snapshot # Absent
           THEN [bk EXCEPT !.archive_path = archive_name(bk.timestamp),
                           !.files_to_add = <<"document.db">>,
                           !.checksums = [n \in {"document.db"} |-> calculate_checksum(bk.snapshot)],
                           !.i = 1, !.pc = "checksum"]
           ELSE [bk EXCEPT !.archive_path = archive_name(bk.timestamp),
                           !.i = 1, !.pc = "checksum"]
  /\ UNCHANGED <<live, safety, rs, sch, vf, cr, mn>>

\* tar_trilium_data, lines 139-146: one turn of the first pass, which lists an
\* existing auxiliary file and hashes the content it has now
BkChecksum ==
  /\ bk.pc = "checksum"
  /\ bk.i <= Len(important_files)
  /\ LET filename == important_files[bk.i]
     IN bk' = IF live[filename] # Absent
              THEN [bk EXCEPT !.files_to_add = Append(@, filename),
                              !.checksums = [n \in DOMAIN @ \cup {filename} |->
                                               IF n = filename
                                               THEN calculate_checksum(live[filename])
                                               ELSE @[n]],
                              !.i = @ + 1]
              ELSE [bk EXCEPT !.i = @ + 1]
  /\ UNCHANGED <<live, safety, rs, sch, vf, cr, mn>>

\* tar_trilium_data, lines 148-161: the log directory is listed, the checksums
\* go into the manifest, the manifest file is written and listed last
BkWriteMetadata ==
  /\ bk.pc = "checksum"
  /\ bk.i > Len(important_files)
  /\ bk' = [bk EXCEPT !.files_to_add =
                         (IF live[LOGFILE] # Absent THEN Append(@, LOGFILE) ELSE @)
                         \o <<MANIFEST>>,
                      !.arch = [members |-> << >>, mkind |-> "missing", files |-> bk.checksums],
                      !.local = "partial", !.i = 1, !.pc = "tar_add"]
  /\ UNCHANGED <<live, safety, rs, sch, vf, cr, mn>>

\* tar_trilium_data, lines 164-166: tar.add of one listed file, which stores
\* the content the file has now; a file that vanished, or a write error, raises
BkTarAdd ==
  /\ bk.pc = "tar_add"
  /\ bk.i <= Len(bk.files_to_add)
  /\ LET arcname == bk.files_to_add[bk.i]
         content == IF arcname = "document.db" THEN bk.snapshot
                    ELSE IF arcname = MANIFEST THEN 0
                    ELSE live[arcname]
     IN \/ /\ content # Absent
           /\ bk' = IF arcname = MANIFEST
                    THEN [bk EXCEPT !.arch.mkind = "ok", !.i = @ + 1]
                    ELSE [bk EXCEPT !.arch.members = Append(@, Member(arcname, TRUE, content)),
                                    !.i = @ + 1]
        \/ bk' = BkRaise(bk, "OSError")
  /\ UNCHANGED <<live, safety, rs, sch, vf, cr, mn>>

\* tar_trilium_data, lines 167-172: the archive is closed, the temporary
\* manifest file removed
BkTarDone ==
  /\ bk.pc = "tar_add"
  /\ bk.i > Len(bk.files_to_add)
  /\ bk' = [bk EXCEPT !.local = "plain", !.pc = "encrypt"]
  /\ UNCHANGED <<live, safety, rs, sch, vf, cr, mn>>

\* line 328, encrypt_archive: without a key the path is returned; with a key
\* gpg writes <name>.gpg, a non-zero exit or a timeout raises, and only after
\* that check is the plaintext archive unlinked
BkEncrypt_unlink_first ==
  /\ bk.pc = "encrypt"
  /\ IF ~bk.key
     THEN bk' = [bk EXCEPT !.enc = "skipped", !.final = "plain",
                           !.final_path = bk.archive_path, !.pc = "upload_start"]
     ELSE \E out \in ToolOutcomes :
            bk' = IF out = "ok"
                  THEN [bk EXCEPT !.enc = "ok", !.local = "gpg", !.final = "gpg",
                                  !.final_path = encrypted_path(bk.archive_path),
                                  !.pc = "upload_start"]
                  ELSE BkRaise([bk EXCEPT !.enc = out, !.local = "none"], ErrorOf(out))
  /\ UNCHANGED <<live, safety, rs, sch, vf, cr, mn>>

BkEncrypt ==
  /\ bk.pc = "encrypt"
  /\ IF ~bk.key
     THEN bk' = [bk EXCEPT !.enc = "skipped", !.final = "plain",
                           !.final_path = bk.archive_path, !.pc = "upload_start"]
     ELSE \E out \in ToolOutcomes :
            bk' = IF out = "ok"
                  THEN [bk EXCEPT !.enc = "ok", !.local = "gpg", !.final = "gpg",
                                  !.final_path = encrypted_path(bk.archive_path),
                                  !.pc = "upload_start"]
                  ELSE BkRaise([bk EXCEPT !.enc = out], ErrorOf(out))
  /\ UNCHANGED <<live, safety, rs, sch, vf, cr, mn>>

\* upload_to_destinations, lines 206-213: nothing configured, or nothing valid
BkUploadStart ==
  /\ bk.pc = "upload_start"
  /\ bk' = IF ~Truthy(bk.destinations) \/ destinations(bk.destinations) = << >>
           THEN [bk EXCEPT !.upload_returned = TRUE, !.pc = "delete_local"]
           ELSE [bk EXCEPT !.i = 1, !.pc = "upload"]
  /\ UNCHANGED <<live, safety, rs, sch, vf, cr, mn>>

\* line 331: upload_to_destinations(final_path), the path encrypt_archive
\* returned and not archive_path
uploaded_file_archive_path(b) == "plain"
uploaded_file(b) == b.final

\* upload_to_destinations, lines 215-227: rclone copyto to one destination
BkUpload_best_effort ==
  /\ bk.pc = "upload"
  /\ bk.i <= Len(destinations(bk.destinations))
  /\ LET dest == destinations(bk.destinations)[bk.i]
     IN \E out \in ToolOutcomes :
          bk' = [bk EXCEPT !.attempts = Append(@, [dest |-> dest, file |-> uploaded_file(bk), ok |-> (out = "ok")]),
                           !.remote = IF out = "ok" THEN @ \cup {dest} ELSE @,
                           !.i = @ + 1]
  /\ UNCHANGED <<live, safety, rs, sch, vf, cr, mn>>

BkUpload ==
  /\ bk.pc = "upload"
  /\ bk.i <= Len(destinations(bk.destinations))
  /\ LET dest == destinations(bk.destinations)[bk.i]
     IN \E out \in ToolOutcomes :
          bk' = IF out = "ok"
                THEN [bk EXCEPT !.attempts = Append(@, [dest |-> dest, file |-> uploaded_file(bk), ok |-> TRUE]),
                                !.remote = @ \cup {dest},
                                !.i = @ + 1]
                ELSE BkRaise([bk EXCEPT !.attempts = Append(@, [dest |-> dest, file |-> uploaded_file(bk), ok |-> FALSE])],
                             ErrorOf(out))
  /\ UNCHANGED <<live, safety, rs, sch, vf, cr, mn>>

\* upload_to_destinations returns after the last destination
BkUploadDone ==
  /\ bk.pc = "upload"
  /\ bk.i > Len(destinations(bk.destinations))
  /\ bk' = [bk EXCEPT !.upload_returned = TRUE, !.pc = "delete_local"]
  /\ UNCHANGED <<live, safety, rs, sch, vf, cr, mn>>

\* lines 333-338: the local copy is unlinked when deletion is configured and
\* the destinations setting is a non-empty string
BkDeleteLocal ==
  /\ bk.pc = "delete_local"
  /\ bk' = IF bk.delete_local /\ Truthy(bk.destinations)
           THEN [bk EXCEPT !.local = "deleted", !.pc = "cleanup_local"]
           ELSE [bk EXCEPT !.pc = "cleanup_local"]
  /\ UNCHANGED <<live, safety, rs, sch, vf, cr, mn>>

\* a safety snapshot as an entry of /backups, which it is when the data
\* directory lies there: a directory that only gets older
SafetyEntry(t) == Entry("trilium-data-safety-", t, FALSE, MaxAge)

\* line 341, cleanup_old_backups: the old archives are unlinked one by one;
\* an unlink that raises ends the loop with some of them already gone. This
\* cycle's own archive has age 0 and is never among them.
BkCleanupLocal ==
  /\ bk.pc = "cleanup_local"
  /\ LET siblings == {SafetyEntry(t) : t \in {u \in Stamps : safety[u].exists}}
         left == cleanup_old_backups(bk.old \cup siblings, bk.retention)
         doomed == bk.old \ left
     IN \/ /\ bk' = [bk EXCEPT !.old = left \ siblings,
                               !.prune_local = IF bk.retention <= 0 THEN "skipped" ELSE "ok",
                               !.i = 1, !.pc = "cleanup_remote"]
           /\ safety' = [t \in Stamps |->
                           IF safety[t].exists /\ SafetyEntry(t) \notin left
                           THEN NoSafety ELSE safety[t]]
        \/ /\ \E f \in doomed : \E gone \in SUBSET (doomed \ {f}) :
                bk' = BkRaise([bk EXCEPT !.old = @ \ gone, !.prune_local = "OSError"],
                              "OSError")
           /\ UNCHANGED safety
  /\ UNCHANGED <<live, rs, sch, vf, cr, mn>>

\* line 342, cleanup_remote_backups: nothing without destinations or without
\* a positive window; else rclone delete at one destination, where a non-zero
\* exit is logged and a timeout raises
BkCleanupRemote ==
  /\ bk.pc = "cleanup_remote"
  /\ Truthy(bk.destinations) /\ bk.retention > 0
  /\ bk.i <= Len(destinations(bk.destinations))
  /\ \E out \in ToolOutcomes :
       LET b == [bk EXCEPT !.prune_remote =
                             Append(@, [dest |-> destinations(bk.destinations)[bk.i], out |-> out])]
       IN bk' = IF out = "timeout"
                THEN BkRaise(b, "TimeoutExpired")
                ELSE [b EXCEPT !.i = @ + 1]
  /\ UNCHANGED <<live, safety, rs, sch, vf, cr, mn>>

\* send_notification, lines 270-305: the mail transport when SMTP_HOST and
\* SMTP_TO are set, then the webhook when BACKUP_WEBHOOK_URL is set; each
\* sends or fails, and a failure is caught and logged
Transport(b, name) ==
  IF b[name] THEN {<<[transport |-> name, ok |-> ok]>> : ok \in BOOLEAN} ELSE {<< >>}
send_notification(b, event) ==
  {[b EXCEPT !.notifs = Append(@, event),
             !.deliveries = @ \o mail \o hook] :
     mail \in Transport(b, "smtp"), hook \in Transport(b, "webhook")}

\* lines 344-348: the success notification, then the try block ends
BkNotifySuccess ==
  /\ bk.pc = "cleanup_remote"
  /\ \/ ~Truthy(bk.destinations) \/ bk.retention <= 0
     \/ bk.i > Len(destinations(bk.destinations))
  /\ \E b \in send_notification(bk, "backup_success") :
       bk' = [b EXCEPT !.result = "ok", !.pc = "finally"]
  /\ UNCHANGED <<live, safety, rs, sch, vf, cr, mn>>

\* lines 350-357: `except Exception` notifies the failure and re-raises
BkExcept ==
  /\ bk.pc = "except"
  /\ \E b \in send_notification(bk, "backup_error") :
       bk' = [b EXCEPT !.result = "raise", !.pc = "finally"]
  /\ UNCHANGED <<live, safety, rs, sch, vf, cr, mn>>

\* lines 358-361: the finally clause removes the work directory
BkFinally ==
  /\ bk.pc = "finally"
  /\ bk' = [bk EXCEPT !.work_exists = FALSE, !.snapshot = Absent, !.pc = "done"]
  /\ UNCHANGED <<live, safety, rs, sch, vf, cr, mn>>

\* KeyboardInterrupt inside the try block: no Exception, so only the finally
\* clause runs
BkInterrupt ==
  /\ bk.pc \notin {"idle", "start", "finally", "done"}
  /\ bk' = [bk EXCEPT !.pc = "finally", !.result = "interrupt"]
  /\ UNCHANGED <<live, safety, rs, sch, vf, cr, mn>>

\* the live application writes one of its files while the archive builder
\* runs (writes at other times change nothing the cycle reads)
LiveAppWrite ==
  /\ bk.pc \in {"tar_start", "checksum", "tar_add"}
  /\ bk.writes < MaxLiveWrites
  /\ \E n \in AuxNames :
       /\ live[n] # Absent
       /\ \E d \in Data \ {live[n]} : live' = [live EXCEPT ![n] = d]
  /\ bk' = [bk EXCEPT !.writes = @ + 1]
  /\ UNCHANGED <<safety, rs, sch, vf, cr, mn>>

\* time passes while a cycle runs
ClockTick ==
  /\ bk.pc \notin {"idle", "start", "done"}
  /\ bk.now < MaxClock
  /\ bk' = [bk EXCEPT !.now = @ + 1]
  /\ UNCHANGED <<live, safety, rs, sch, vf, cr, mn>>

run_backup ==
  \/ BkMkdir \/ BkCreateMetadata \/ BkSqliteBackup
  \/ BkTarStart \/ BkChecksum \/ BkWriteMetadata \/ BkTarAdd \/ BkTarDone
  \/ BkEncrypt \/ BkUploadStart \/ BkUpload \/ BkUploadDone \/ BkDeleteLocal
  \/ BkCleanupLocal \/ BkCleanupRemote \/ BkNotifySuccess
  \/ BkExcept \/ BkFinally \/ BkInterrupt

\* ---------------------------------------------------------------- main of backup.py
\* BACKUP_SCHEDULE fires at the multiples of Interval (one tick is a fixed
\* fraction of the cron period)
Interval == 2

\* what a call of run_backup can do to the loop: return, or raise one of the
\* exceptions its own `raise` passes on
CycleOutcomes == {"ok", "RuntimeError", "TimeoutExpired", "OSError"}
Failures == CycleOutcomes \ {"ok"}

\* croniter.get_next: the first trigger strictly after the iterator's own
\* position (not after the clock)
get_next(cur) == ((cur \div Interval) + 1) * Interval

\* The schedule is periodic, so only the distance between the clock and the
\* iterator matters: all instants are kept relative to the last trigger the
\* iterator returned.
Rebase(s) == [s EXCEPT !.now = @ - s.cur, !.next_run = @ - s.cur, !.cur = 0]

SchIdle ==
  [pc |-> "idle", run_on_start |-> FALSE, cron_valid |-> FALSE, datadir_exists |-> FALSE,
   now |-> 0, cur |-> 0, next_run |-> 0, wait |-> 0, slept |-> FALSE,
   last |-> "none", prev |-> "none"]

SchStarts ==
  {[SchIdle EXCEPT !.pc = "start", !.run_on_start = r, !.cron_valid = c,
                   !.datadir_exists = d, !.now = t] :
      r \in BOOLEAN, c \in BOOLEAN, d \in BOOLEAN, t \in 0..(Interval - 1)}

\* lines 373-381: an invalid schedule or a missing data directory ends the process
SchValidate ==
  /\ sch.pc = "start"
  /\ sch' = IF ~sch.cron_valid \/ ~sch.datadir_exists
            THEN [sch EXCEPT !.pc = "exited"]
            ELSE [sch EXCEPT !.pc = "on_start"]
  /\ UNCHANGED <<live, safety, rs, bk, vf, cr, mn>>

\* lines 383-387: the run-on-start cycle begins, when configured
SchRunOnStart ==
  /\ sch.pc = "on_start"
  /\ sch' = IF sch.run_on_start
            THEN [sch EXCEPT !.pc = "initial_cycle"]
            ELSE [sch EXCEPT !.pc = "init_cron"]
  /\ UNCHANGED <<live, safety, rs, bk, vf, cr, mn>>

\* lines 386-389: the run-on-start cycle returns or raises; `except Exception`
\* logs the failure
SchInitialCycleEnds ==
  /\ sch.pc = "initial_cycle"
  /\ \E out \in CycleOutcomes : \E d \in 1..MaxDur :
       sch' = [sch EXCEPT !.last = out, !.now = @ + d, !.pc = "init_cron"]
  /\ UNCHANGED <<live, safety, rs, bk, vf, cr, mn>>

\* line 392: the iterator starts at the current time
SchInitCron ==
  /\ sch.pc = "init_cron"
  /\ sch' = [sch EXCEPT !.cur = sch.now, !.pc = "next"]
  /\ UNCHANGED <<live, safety, rs, bk, vf, cr, mn>>

\* lines 394-397: the next trigger and the time to wait for it
SchNext ==
  /\ sch.pc = "next"
  /\ LET next_run == get_next(sch.cur)
         wait_seconds == next_run - sch.now
     IN sch' = Rebase([sch EXCEPT !.next_run = next_run, !.cur = next_run,
                                  !.wait = wait_seconds, !.slept = FALSE,
                                  !.pc = IF wait_seconds > 0 THEN "sleep" ELSE "run"])
  /\ UNCHANGED <<live, safety, rs, bk, vf, cr, mn>>

\* lines 398-399: time.sleep until the trigger
SchSleep ==
  /\ sch.pc = "sleep"
  /\ sch' = [sch EXCEPT !.now = @ + sch.wait, !.slept = TRUE, !.pc = "run"]
  /\ UNCHANGED <<live, safety, rs, bk, vf, cr, mn>>

\* lines 401-402: run_backup is called
SchStartCycle ==
  /\ sch.pc = "run"
  /\ sch' = [sch EXCEPT !.prev = sch.last, !.pc = "cycle"]
  /\ UNCHANGED <<live, safety, rs, bk, vf, cr, mn>>

\* lines 402-404: the cycle returns or raises after d ticks; `except
\* Exception` logs the failure and the loop goes on
SchCycleEnds_uncaught ==
  /\ sch.pc = "cycle"
  /\ \E out \in CycleOutcomes : \E d \in 1..MaxDur :
       /\ d = 1 \/ sch.now + d - sch.cur <= MaxLag
       /\ sch' = [sch EXCEPT !.last = out, !.now = @ + d,
                             !.pc = IF out = "TimeoutExpired" THEN "exited" ELSE "next"]
  /\ UNCHANGED <<live, safety, rs, bk, vf, cr, mn>>

SchCycleEnds ==
  /\ sch.pc = "cycle"
  /\ \E out \in CycleOutcomes : \E d \in 1..MaxDur :
       /\ d = 1 \/ sch.now + d - sch.cur <= MaxLag
       /\ sch' = [sch EXCEPT !.last = out, !.now = @ + d, !.pc = "next"]
  /\ UNCHANGED <<live, safety, rs, bk, vf, cr, mn>>

\* KeyboardInterrupt is no Exception: it ends the process wherever it arrives
SchInterrupt ==
  /\ sch.pc \notin {"idle", "exited", "interrupted"}
  /\ sch' = [sch EXCEPT !.pc = "interrupted"]
  /\ UNCHANGED <<live, safety, rs, bk, vf, cr, mn>>

\* the steps main takes by itself
SchLoop ==
  \/ SchValidate \/ SchRunOnStart \/ SchInitialCycleEnds \/ SchInitCron
  \/ SchNext \/ SchSleep \/ SchStartCycle \/ SchCycleEnds

\* ---------------------------------------------------------------- encrypt_archive, decrypt_backup
\* restore.py lines 256-258: one ending is dropped, then every further .gpg
RECURSIVE strip_gpg(_)
strip_gpg(p) == IF suffix(p) = "gpg" THEN strip_gpg(with_suffix(p, << >>)) ELSE p
decrypted_path_drops_two(path) == strip_gpg(with_suffix(with_suffix(path, << >>), << >>))
decrypted_path(path) == strip_gpg(with_suffix(path, << >>))

\* BACKUP_ENCRYPTION_KEY / --passphrase: "" is the unset value
Passphrases == {"k1", "k2"}
KeyShift(k) == IF k = "k1" THEN 1 ELSE 2
Modulus == MaxData + 1

\* file contents: a plaintext archive, or what gpg --symmetric made of one
Plain(d) == [kind |-> "plain", data |-> d, mac |-> ""]
Garbage == [kind |-> "garbage", data |-> 0, mac |-> ""]
\* gpg as a correct symmetric cipher: the ciphertext differs from the
\* plaintext and only the passphrase it was made with opens it
gpg_symmetric(content, k) ==
  [kind |-> "gpg", data |-> (content.data + KeyShift(k)) % Modulus, mac |-> k]
gpg_decrypt_ok(content, k) == content.kind = "gpg" /\ content.mac = k
gpg_decrypt(content, k) == Plain((content.data + Modulus - (KeyShift(k) % Modulus)) % Modulus)

\* the archive paths run_backup builds: trilium-backup-<timestamp>.tar.gz
ArchivePaths == {Path(st, <<"tar", "gz">>) : st \in {"trilium-backup-T1", "trilium-backup-T2"}}
NoPath == Path("", << >>)

\* f with path p written / removed
Written(f, p, c) == [q \in DOMAIN f \cup {p} |-> IF q = p THEN c ELSE f[q]]
Removed(f, p) == [q \in DOMAIN f \ {p} |-> f[q]]

CrIdle ==
  [pc |-> "idle", archive_path |-> NoPath, key |-> "", passphrase |-> "", typed |-> "",
   files |-> << >>, files0 |-> << >>, encrypted |-> NoPath, decrypted |-> NoPath,
   error_enc |-> "none", error_dec |-> "none"]

\* an archive p in /backups, possibly next to another one, every key setting
\* and every passphrase argument
CrFiles(p) ==
  {Written(g, p, Plain(d)) :
     d \in Data, g \in {<< >>} \cup {[q \in {o} |-> Plain(0)] : o \in ArchivePaths}}
CrStarts ==
  UNION {{[CrIdle EXCEPT !.pc = "encrypt", !.archive_path = p, !.key = k,
                         !.passphrase = pp, !.typed = "k1", !.files = f, !.files0 = f] :
            k \in Passphrases \cup {""}, pp \in Passphrases \cup {""}, f \in CrFiles(p)} :
         p \in ArchivePaths}

\* encrypt_archive(archive_path), backup.py lines 175-201
CrEncryptArchive ==
  /\ cr.pc = "encrypt"
  /\ IF cr.key = ""
     THEN cr' = [cr EXCEPT !.encrypted = cr.archive_path, !.pc = "decrypt"]
     ELSE LET out_path == encrypted_path(cr.archive_path)
          IN \E out \in ToolOutcomes :
               IF out = "ok"
               THEN cr' = [cr EXCEPT
                             !.files = Removed(Written(@, out_path,
                                                       gpg_symmetric(@[cr.archive_path], cr.key)),
                                               cr.archive_path),
                             !.encrypted = out_path, !.pc = "decrypt"]
               ELSE \E partial \in BOOLEAN :
                      cr' = [cr EXCEPT
                               !.files = IF partial THEN Written(@, out_path, Garbage) ELSE @,
                               !.error_enc = ErrorOf(out), !.pc = "done"]
  /\ UNCHANGED <<live, safety, rs, bk, sch, vf, mn>>

\* decrypt_backup(encrypted_path, passphrase), restore.py lines 248-278,
\* called on what encrypt_archive returned
CrDecryptBackup ==
  /\ cr.pc = "decrypt"
  /\ IF suffix(cr.encrypted) # "gpg"
     THEN cr' = [cr EXCEPT !.decrypted = cr.encrypted, !.pc = "done"]
     ELSE LET passphrase == IF cr.passphrase # "" THEN cr.passphrase
                            ELSE IF cr.key # "" THEN cr.key
                            ELSE cr.typed
              out_path == decrypted_path(cr.encrypted)
          IN \E out \in ToolOutcomes :
               IF out = "ok" /\ gpg_decrypt_ok(cr.files[cr.encrypted], passphrase)
               THEN cr' = [cr EXCEPT
                             !.files = Written(@, out_path,
                                               gpg_decrypt(@[cr.encrypted], passphrase)),
                             !.decrypted = out_path, !.pc = "done"]
               ELSE cr' = [cr EXCEPT !.error_dec = ErrorOf(out), !.pc = "done"]
  /\ UNCHANGED <<live, safety, rs, bk, sch, vf, mn>>

\* ---------------------------------------------------------------- main of restore.py
\* what the command line asks for: nothing at all, only options that name no
\* operation, --list, --restore-latest, --restore PATH
Requests == {"bare", "options_only", "list", "restore_latest", "restore"}

MnIdle ==
  [pc |-> "idle", request |-> "bare", source |-> "cloud", cloud_path |-> FALSE,
   force |-> FALSE, destinations |-> << >>, local_found |-> FALSE,
   listing |-> "none", found |-> FALSE, download |-> "none", called |-> FALSE,
   error |-> "none", exit |-> "none", passphrase |-> "", env_key |-> ""]

\* the command lines, the destinations setting and whether /backups holds
\* the backup asked for
MnStarts ==
  {[MnIdle EXCEPT !.pc = "start", !.request = rq, !.source = src, !.cloud_path = cp,
                  !.force = f, !.destinations = ds, !.local_found = lf,
                  !.passphrase = pp, !.env_key = k] :
      rq \in Requests, src \in {"cloud", "local"}, cp \in BOOLEAN, f \in BOOLEAN,
      ds \in {<< >>, <<"A">>}, lf \in BOOLEAN, pp \in {"", "k1"}, k \in {"", "k2"}}

MnExit(m, code) == [m EXCEPT !.exit = code, !.pc = "done"]

\* lines 476-479: no argument at all prints the usage and returns 0
MnParse ==
  /\ mn.pc = "start"
  /\ mn' = IF mn.request = "bare" THEN MnExit(mn, "0")
           ELSE IF mn.request = "options_only" THEN MnExit(mn, "0")
           ELSE [mn EXCEPT !.pc = mn.request]
  /\ UNCHANGED <<live, safety, rs, bk, sch, vf, cr>>

\* lines 482-486 and 535: --list; list_cloud_backups (126-183) asks every
\* destination with rclone lsf, ignores a non-zero exit, catches and prints
\* an exception, and main returns 0 after either listing
MnList ==
  /\ mn.pc = "list"
  /\ \/ /\ mn.source = "local" \/ ~Truthy(mn.destinations)
        /\ mn' = MnExit(mn, "0")
     \/ /\ mn.source = "cloud" /\ Truthy(mn.destinations)
        /\ \E out \in ToolOutcomes, some \in BOOLEAN :
             mn' = MnExit([mn EXCEPT !.listing = out, !.found = (out = "ok" /\ some)], "0")
  /\ UNCHANGED <<live, safety, rs, bk, sch, vf, cr>>

\* lines 488-511: --restore-latest looks for the newest backup in /backups or,
\* with find_latest_cloud_backup (209-245), at the destinations
MnRestoreLatest ==
  /\ mn.pc = "restore_latest"
  /\ \/ /\ mn.source = "local"
        /\ mn' = IF mn.local_found THEN [mn EXCEPT !.pc = "call"] ELSE MnExit(mn, "1")
     \/ /\ mn.source = "cloud"
        /\ IF ~Truthy(mn.destinations)
           THEN mn' = MnExit(mn, "1")
           ELSE \E out \in ToolOutcomes, some \in BOOLEAN :
                  mn' = IF out = "ok" /\ some
                        THEN [mn EXCEPT !.listing = out, !.found = TRUE, !.pc = "download"]
                        ELSE MnExit([mn EXCEPT !.listing = out], "1")
  /\ UNCHANGED <<live, safety, rs, bk, sch, vf, cr>>

\* lines 513-533: --restore PATH, a remote reference when it has a colon or
\* the source is cloud, else a file of /backups that must exist
MnRestore ==
  /\ mn.pc = "restore"
  /\ mn' = IF mn.cloud_path \/ mn.source = "cloud"
           THEN [mn EXCEPT !.pc = "download"]
           ELSE IF mn.local_found THEN [mn EXCEPT !.pc = "call"]
           ELSE MnExit(mn, "1")
  /\ UNCHANGED <<live, safety, rs, bk, sch, vf, cr>>

\* download_from_cloud, lines 186-206: a non-zero exit raises RuntimeError, a
\* timeout TimeoutExpired; `except Exception` (540-542) returns 1
MnDownload ==
  /\ mn.pc = "download"
  /\ \E out \in ToolOutcomes :
       mn' = IF out = "ok"
             THEN [mn EXCEPT !.download = out, !.pc = "call"]
             ELSE MnExit([mn EXCEPT !.download = out, !.error = ErrorOf(out)], "1")
  /\ UNCHANGED <<live, safety, rs, bk, sch, vf, cr>>

\* run_restore(path, args.data_dir, args.force) is called on a file that
\* exists; args.passphrase is not among the arguments
MnCallRestore ==
  /\ mn.pc = "call"
  /\ \E de \in BOOLEAN, e \in BOOLEAN, a \in SnArchives, ar \in BOOLEAN :
       rs' = [RsIdle EXCEPT !.pc = "start", !.force = mn.force, !.backup_exists = TRUE,
                            !.datadir_exists = de, !.encrypted = e, !.arch = a,
                            !.live0 = live, !.env_key = mn.env_key,
                            !.app_running = ar]
  /\ mn' = [mn EXCEPT !.called = TRUE, !.pc = "restoring"]
  /\ UNCHANGED <<live, safety, bk, sch, vf, cr>>

\* `return 0 if run_restore(...) else 1`; a KeyboardInterrupt that ended
\* run_restore is caught at lines 537-539
MnReturn ==
  /\ mn.pc = "restoring"
  /\ rs.pc = "done"
  /\ mn' = MnExit(mn, IF rs.result = "true" THEN "0" ELSE "1")
  /\ UNCHANGED <<live, safety, rs, bk, sch, vf, cr>>

\* lines 537-539: KeyboardInterrupt while main itself lists or downloads
MnInterrupt ==
  /\ mn.pc \in {"list", "restore_latest", "restore", "download", "call"}
  /\ mn' = MnExit([mn EXCEPT !.error = "KeyboardInterrupt"], "1")
  /\ UNCHANGED <<live, safety, rs, bk, sch, vf, cr>>

restore_main ==
  \/ MnParse \/ MnList \/ MnRestoreLatest \/ MnRestore \/ MnDownload
  \/ MnCallRestore \/ MnReturn \/ MnInterrupt

\* ---------------------------------------------------------------- specifications

\* verify_backup on every bounded archive, before and after a corruption
InitVerify ==
  /\ vf \in {[VfIdle EXCEPT !.arch = a] : a \in VerifyArchives}
  /\ live = NoFiles /\ safety = NoSnapshots
  /\ rs = RsIdle /\ bk = BkIdle /\ sch = SchIdle /\ cr = CrIdle /\ mn = MnIdle
NextVerify == VerifyBackup \/ CorruptMember
SpecVerify == InitVerify /\ [][NextVerify]_vars

\* one run of run_restore
InitRestore ==
  /\ live \in RestoreLives
  /\ rs \in {[r EXCEPT !.live0 = live] : r \in RsStarts}
  /\ safety = NoSnapshots
  /\ bk = BkIdle /\ sch = SchIdle /\ vf = VfIdle /\ cr = CrIdle /\ mn = MnIdle
NextRestore == run_restore
SpecRestore == InitRestore /\ [][NextRestore]_vars

\* one backup cycle, the live application writing meanwhile
InitBackup ==
  /\ live \in BackupLives
  /\ bk \in BkStarts
  /\ safety = NoSnapshots
  /\ rs = RsIdle /\ sch = SchIdle /\ vf = VfIdle /\ cr = CrIdle /\ mn = MnIdle
NextBackup == run_backup \/ LiveAppWrite
SpecBackup == InitBackup /\ [][NextBackup]_vars

\* one backup cycle over every bounded listing of /backups and every
\* retention window
PruneStarts ==
  {[BkIdle EXCEPT !.pc = "start", !.destinations = ds, !.retention = r,
                  !.old = l, !.old0 = l] :
      ds \in {<< >>, <<"A", ",", " ", "B">>}, r \in Retentions, l \in Listings}
InitPrune ==
  /\ live = [n \in LiveNames |-> 0]
  /\ bk \in PruneStarts
  /\ safety = NoSnapshots
  /\ rs = RsIdle /\ sch = SchIdle /\ vf = VfIdle /\ cr = CrIdle /\ mn = MnIdle
NextPrune == run_backup
SpecPrune == InitPrune /\ [][NextPrune]_vars

\* one backup cycle under every configuration of the notification transports
NotifyStarts ==
  {[BkIdle EXCEPT !.pc = "start", !.destinations = ds, !.key = k, !.retention = 1,
                  !.old = {OldArchive(MaxAge)}, !.old0 = {OldArchive(MaxAge)},
                  !.smtp = m, !.webhook = w] :
      ds \in {<< >>, <<"A">>}, k \in BOOLEAN, m \in BOOLEAN, w \in BOOLEAN}
InitNotify ==
  /\ live \in {[n \in LiveNames |-> IF n \in gone THEN Absent ELSE 0] :
                gone \in {{}, {"document.db"}}}
  /\ bk \in NotifyStarts
  /\ safety = NoSnapshots
  /\ rs = RsIdle /\ sch = SchIdle /\ vf = VfIdle /\ cr = CrIdle /\ mn = MnIdle
NextNotify == run_backup
SpecNotify == InitNotify /\ [][NextNotify]_vars

\* one backup cycle started at any instant, the clock advancing meanwhile
NameStarts ==
  {[BkIdle EXCEPT !.pc = "start", !.destinations = ds, !.key = k, !.retention = 1,
                  !.old = {OldArchive(MaxAge)}, !.old0 = {OldArchive(MaxAge)},
                  !.now = t, !.started = t] :
      ds \in {<< >>, <<"A">>}, k \in BOOLEAN, t \in 0..(MaxClock - 1)}
InitName ==
  /\ live = [n \in LiveNames |-> 0]
  /\ bk \in NameStarts
  /\ safety = NoSnapshots
  /\ rs = RsIdle /\ sch = SchIdle /\ vf = VfIdle /\ cr = CrIdle /\ mn = MnIdle
NextName == run_backup \/ ClockTick
SpecName == InitName /\ [][NextName]_vars

\* the scheduler loop; the process keeps running (sleep returns, every tool
\* call of a cycle is bounded by its timeout) unless it is interrupted
InitSched ==
  /\ sch \in SchStarts
  /\ live = NoFiles /\ safety = NoSnapshots
  /\ rs = RsIdle /\ bk = BkIdle /\ vf = VfIdle /\ cr = CrIdle /\ mn = MnIdle
NextSched == SchLoop \/ SchInterrupt
SpecSched == InitSched /\ [][NextSched]_vars /\ WF_vars(SchLoop)

\* a restore, then a second restore (in the same second or a later one), then
\* a backup cycle with pruning
SnRestoreStarts ==
  {[RsIdle EXCEPT !.pc = "start", !.force = f, !.backup_exists = TRUE,
                  !.datadir_exists = TRUE, !.arch = a] :
      f \in BOOLEAN, a \in SnArchives}
SnNextRestore ==
  /\ rs.pc = "done" /\ rs.run = 1
  /\ \E r \in SnRestoreStarts, t \in Stamps :
       rs' = [r EXCEPT !.stamp = t, !.run = 2, !.live0 = live]
  /\ UNCHANGED <<live, safety, bk, sch, vf, cr, mn>>
SnStartBackup ==
  /\ rs.pc = "done" /\ rs.run = 2
  /\ bk.pc = "idle"
  /\ bk' = [BkIdle EXCEPT !.pc = "start", !.destinations = <<"A">>, !.retention = 1,
                          !.old = {OldArchive(MaxAge)}, !.old0 = {OldArchive(MaxAge)}]
  \* the restore process has exited: only what it was and how it ended is kept
  /\ rs' = [RsIdle EXCEPT !.pc = "done", !.run = rs.run, !.stamp = rs.stamp,
                          !.force = rs.force, !.result = rs.result]
  /\ UNCHANGED <<live, safety, sch, vf, cr, mn>>
InitSnapshots ==
  /\ live = [n \in LiveNames |-> 0]
  /\ rs \in {[r EXCEPT !.live0 = live] : r \in SnRestoreStarts}
  /\ safety = NoSnapshots
  /\ bk = BkIdle /\ sch = SchIdle /\ vf = VfIdle /\ cr = CrIdle /\ mn = MnIdle
NextSnapshots == run_restore \/ SnNextRestore \/ SnStartBackup \/ run_backup
SpecSnapshots == InitSnapshots /\ [][NextSnapshots]_vars

\* one invocation of the restore tool
InitMain ==
  /\ mn \in MnStarts
  /\ live = [n \in LiveNames |-> 0]
  /\ safety = NoSnapshots
  /\ rs = RsIdle /\ bk = BkIdle /\ sch = SchIdle /\ vf = VfIdle /\ cr = CrIdle
NextMain == restore_main \/ run_restore
SpecMain == InitMain /\ [][NextMain]_vars

\* encrypt_archive on an archive of /backups, then decrypt_backup on its result
InitCrypt ==
  /\ cr \in CrStarts
  /\ live = NoFiles /\ safety = NoSnapshots
  /\ rs = RsIdle /\ bk = BkIdle /\ sch = SchIdle /\ vf = VfIdle /\ mn = MnIdle
NextCrypt == CrEncryptArchive \/ CrDecryptBackup
SpecCrypt == InitCrypt /\ [][NextCrypt]_vars

\* a backup cycle, then a restore of the archive it left in /backups
RtConfigs ==
  {[BkIdle EXCEPT !.pc = "start", !.destinations = ds, !.key = k, !.retention = 1] :
      ds \in {<< >>, <<"A">>}, k \in BOOLEAN}
RtLives ==
  {[n \in LiveNames |-> IF n \in gone THEN Absent ELSE 0] :
      gone \in {{}, {"document.db-shm", "document.db-wal"}, {"config.ini"}}}

\* the operator calls run_restore on the cycle's artifact once the cycle is over
RtStartRestore ==
  /\ bk.pc = "done"
  /\ bk.local # "partial"
  /\ rs.pc = "idle"
  /\ \E f \in BOOLEAN :
       rs' = [RsIdle EXCEPT !.pc = "start", !.force = f,
                            !.backup_exists = (bk.local \in {"plain", "gpg"}),
                            !.datadir_exists = TRUE,
                            !.encrypted = (bk.local = "gpg"),
                            !.arch = bk.arch, !.live0 = live]
  /\ UNCHANGED <<live, safety, bk, sch, vf, cr, mn>>

InitRoundTrip ==
  /\ live \in RtLives
  /\ bk \in RtConfigs
  /\ safety = NoSnapshots
  /\ rs = RsIdle /\ sch = SchIdle /\ vf = VfIdle /\ cr = CrIdle /\ mn = MnIdle
NextRoundTrip == run_backup \/ RtStartRestore \/ run_restore
SpecRoundTrip == InitRoundTrip /\ [][NextRoundTrip]_vars

\* ---------------------------------------------------------------- claims

\* C1: when the archive has a manifest-listed member whose digest differs
\* from the manifest, run_restore returns failure, never creates its work
\* directory, and no live file is created, overwritten or removed.
C1_MismatchAbortsBeforeLive ==
  HasMismatch(rs.arch) =>
    /\ rs.touched = {}
    /\ live = rs.live0
    /\ ~rs.work_created
    /\ rs.result # "true"
    /\ rs.verdict.outcome # "none" => (rs.pc = "done" /\ rs.result = "false")
C1_Witness ==
  /\ HasMismatch(rs.arch)
  /\ rs.verdict.outcome = "failed"
  /\ rs.snapshot = "created"
  /\ rs.pc = "done" /\ rs.result = "false"

\* C2: when docker ps reports the container running and force is not set,
\* run_restore returns failure at once: no prompt, no safety snapshot, no
\* decryption, no verification or extraction, no live file touched.
C2_RunningAbortsAtOnce ==
  (rs.container = "running" /\ ~rs.force) =>
    /\ rs.pc = "done" /\ rs.result = "false"
    /\ ~rs.prompted
    /\ rs.snapshot = "none" /\ \A t \in Stamps : ~safety[t].exists
    /\ ~rs.decrypted
    /\ rs.verdict.outcome = "none"
    /\ ~rs.work_created
    /\ rs.touched = {} /\ live = rs.live0
C2_Witness ==
  rs.container = "running" /\ ~rs.force /\ rs.pc = "done" /\ rs.encrypted

\* C3: for an archive without the member backup-metadata.json, verify_backup
\* returns success with the outcome "unverifiable" and run_restore goes on to
\* the extraction.
C3_NoManifestIsUnverifiable ==
  (rs.arch.mkind = "missing" /\ rs.verdict.outcome # "none") =>
    /\ rs.verdict.ok
    /\ rs.verdict.outcome = "unverifiable"
    /\ rs.pc # "done" \/ rs.work_created

\* C4: the archive tar_trilium_data has just written passes verify_backup,
\* whatever the live application wrote while it was built.
C4_FreshArchiveVerifies ==
  bk.pc = "encrypt" =>
    /\ verify_backup(bk.arch).ok
    /\ verify_backup(bk.arch).printed = {}

\* C5: for an archive with a manifest, verify_backup succeeds exactly when
\* every regular member listed in the manifest hashes to its recorded digest,
\* and the names it reports are exactly the mismatching listed members.
Mismatching(arch) ==
  {arch.members[i].name : i \in
     {j \in DOMAIN arch.members :
        /\ arch.members[j].isfile
        /\ arch.members[j].name \in DOMAIN arch.files
        /\ sha256(arch.members[j].data) # arch.files[arch.members[j].name]}}
C5_VerdictIffAllListedMatch ==
  (vf.verdict.outcome # "none" /\ vf.arch.mkind = "ok") =>
    /\ vf.verdict.ok <=> Mismatching(vf.arch) = {}
    /\ vf.verdict.printed = Mismatching(vf.arch)
    /\ vf.verdict.outcome = IF vf.verdict.ok THEN "verified" ELSE "failed"
C5_Witness ==
  /\ vf.corrupted # {}
  /\ vf.arch.mkind = "ok"
  /\ vf.verdict.outcome = "failed"
  /\ Len(vf.arch.members) = 2
  /\ vf.verdict.printed = {vf.arch.members[i].name : i \in vf.corrupted}
  /\ \E i \in DOMAIN vf.arch.members :
       /\ vf.arch.members[i].name \notin DOMAIN vf.arch.files
       /\ vf.arch.members[i].name \notin vf.verdict.printed

\* C6: the uploads are attempted in the order of the configured destinations;
\* a failed upload is the last one attempted and makes the cycle raise; when
\* upload_to_destinations returns, every configured destination has the file.
C6_UploadStopsAtFirstFailure ==
  LET dests == destinations(bk.destinations)
  IN /\ Len(bk.attempts) <= Len(dests)
     /\ \A k \in DOMAIN bk.attempts :
          /\ bk.attempts[k].dest = dests[k]
          /\ ~bk.attempts[k].ok =>
               /\ k = Len(bk.attempts)
               /\ ~bk.upload_returned
               /\ bk.pc \in {"except", "finally", "done"}
               /\ bk.result # "ok"
     /\ bk.upload_returned =>
          /\ Len(bk.attempts) = Len(dests)
          /\ \A k \in DOMAIN dests : dests[k] \in bk.remote /\ bk.attempts[k].ok
C6_Witness ==
  /\ Len(destinations(bk.destinations)) = 2
  /\ Len(bk.attempts) = 1
  /\ ~bk.attempts[1].ok
  /\ bk.pc = "done" /\ bk.result = "raise"

\* C7: the local archive is deleted only when destinations are configured and
\* all of them hold the archive, so after a successful cycle a copy exists,
\* locally or at a destination.
C7_DeleteOnlyAfterUpload ==
  /\ bk.local = "deleted" =>
       /\ destinations(bk.destinations) # << >>
       /\ \A d \in Range(destinations(bk.destinations)) : d \in bk.remote
  /\ bk.result = "ok" => (bk.local \in {"plain", "gpg"} \/ bk.remote # {})

\* C8: the process exits on its own only at the start-up validation, and a
\* failed cycle (run-on-start or scheduled) is followed by another cycle
\* unless the process is interrupted.
C8_FailedCycleKeepsLoop ==
  /\ [](sch.pc = "exited" => sch.last = "none")
  /\ (sch.last \in Failures) ~> (sch.pc \in {"cycle", "interrupted"})
C8_Witness ==
  sch.pc = "cycle" /\ sch.prev = "TimeoutExpired"

\* C9: the trigger the loop computes is strictly later than the clock at that
\* moment, so every cycle of the loop starts after a wait.
C9_TriggerAfterNow ==
  /\ sch.pc \in {"sleep", "run"} => sch.wait > 0
  /\ sch.pc = "cycle" => sch.slept

\* C10: once run_backup or run_restore is over, by return, exception or
\* interrupt, the work directory it created is gone.
C10_WorkDirRemoved ==
  /\ (bk.pc = "done" /\ bk.work_created) => ~bk.work_exists
  /\ (rs.pc = "done" /\ rs.work_created) => ~rs.work_exists
C10_Witness ==
  /\ bk.pc = "done" /\ bk.work_created /\ bk.result = "interrupt"
  /\ rs.pc = "done" /\ rs.work_created /\ rs.result = "false"
\* C11: encrypt_archive without a key returns the plaintext path and leaves
\* the archive as it is; with a key and a successful cipher run the encrypted
\* file exists and the plaintext is removed; when the cipher run fails (by a
\* non-zero exit or by timeout) it raises and the plaintext archive is still
\* there, and nothing is uploaded.
C11_EncryptPostconditions ==
  /\ bk.enc = "skipped" =>
        ~bk.key /\ bk.final = "plain" /\ (bk.pc = "upload_start" => bk.local = "plain")
  /\ bk.enc = "ok" =>
        bk.key /\ bk.final = "gpg" /\ (bk.pc = "upload_start" => bk.local = "gpg")
  /\ bk.enc \in {"fail", "timeout"} =>
        /\ bk.key /\ bk.local = "plain" /\ bk.final = "none"
        /\ bk.attempts = << >>
        /\ bk.error = ErrorOf(bk.enc) /\ bk.result # "ok"
        /\ bk.pc \in {"except", "finally", "done"}
  /\ bk.pc = "upload_start" => bk.enc = (IF bk.key THEN "ok" ELSE "skipped")
C11_Witness ==
  bk.pc = "done" /\ bk.enc = "timeout" /\ bk.local = "plain" /\ bk.result = "raise"

\* C12: decrypt_backup applied to what encrypt_archive returned, with the
\* passphrase the archive was encrypted with, returns the original path, the
\* file there has the content the archive had before encryption, and
\* decrypt_backup removes no file: the encrypted file is still there.
C12_EncryptDecryptRoundTrip ==
  /\ (cr.pc = "done" /\ cr.decrypted # NoPath) =>
        /\ cr.decrypted = cr.archive_path
        /\ cr.decrypted \in DOMAIN cr.files
        /\ cr.files[cr.decrypted] = cr.files0[cr.archive_path]
        /\ cr.encrypted \in DOMAIN cr.files
        /\ \A q \in DOMAIN cr.files0 \ {cr.archive_path} :
              q \in DOMAIN cr.files /\ cr.files[q] = cr.files0[q]
  /\ (cr.pc = "done" /\ cr.error_dec # "none") =>
        cr.encrypted \in DOMAIN cr.files
C12_Witness ==
  /\ cr.pc = "done" /\ cr.key = "k1" /\ cr.passphrase = "k1"
  /\ cr.encrypted = Path("trilium-backup-T1", <<"tar", "gz", "gpg">>)
  /\ cr.decrypted = Path("trilium-backup-T1", <<"tar", "gz">>)
  /\ cr.files[cr.encrypted].data # cr.files[cr.decrypted].data

\* C13: a failure of the pruning step (local pruning, or remote pruning at
\* some destination by non-zero exit or timeout) never makes the cycle fail:
\* a cycle that is not interrupted still ends normally with the success
\* notification sent, and remote pruning was tried at every destination.
C13_PruneFailureNotFatal ==
  (/\ bk.pc = "done" /\ bk.result # "interrupt"
   /\ \/ bk.prune_local = "OSError"
      \/ \E k \in DOMAIN bk.prune_remote : bk.prune_remote[k].out # "ok")
  => /\ bk.result = "ok"
     /\ bk.notifs = <<"backup_success">>
     /\ Len(bk.prune_remote) = Len(destinations(bk.destinations))

\* C14: with a retention window above zero, local pruning that completes has
\* removed exactly the regular files named trilium-backup-* whose age is
\* strictly above the window, and every other entry (newer backups, other
\* names, directories) is never removed; with a window of zero or less no
\* entry is removed and the sync tool is never called for pruning.
C14_PruneExactlyOldArchives ==
  /\ \A f \in bk.old0 :
        ~(f.prefix = "trilium-backup-" /\ f.is_file /\ f.age > bk.retention) => f \in bk.old
  /\ bk.old \subseteq bk.old0
  /\ bk.prune_local = "ok" =>
        /\ bk.retention > 0
        /\ \A f \in bk.old :
              ~(f.prefix = "trilium-backup-" /\ f.is_file /\ f.age > bk.retention)
  /\ bk.retention <= 0 =>
        bk.old = bk.old0 /\ bk.prune_remote = << >> /\ bk.prune_local \in {"none", "skipped"}
C14_Witness ==
  /\ bk.prune_local = "ok" /\ bk.retention = 1
  /\ bk.old0 = {OldArchive(1), OldArchive(2)}
  /\ bk.old = {OldArchive(1)}
  /\ bk.result = "ok"

\* C15: when the database file is absent or the hot-backup tool fails,
\* run_sqlite_backup raises and the cycle ends there: no archive of the
\* cycle exists in /backups, not even a partial one, nothing was encrypted or
\* uploaded, and neither pruning step ran.
C15_NoDatabaseNoArchive ==
  bk.sqlite \in {"absent", "fail", "timeout"} =>
    /\ bk.error = (IF bk.sqlite = "timeout" THEN "TimeoutExpired" ELSE "RuntimeError")
    /\ bk.pc \in {"except", "finally", "done"} /\ bk.result # "ok"
    /\ bk.local = "none" /\ bk.arch = EmptyArchive /\ bk.files_to_add = << >>
    /\ bk.enc = "none" /\ bk.final = "none"
    /\ bk.attempts = << >> /\ bk.remote = {}
    /\ bk.prune_local = "none" /\ bk.prune_remote = << >> /\ bk.old = bk.old0
C15_Witness ==
  /\ bk.pc = "done" /\ bk.sqlite = "fail" /\ bk.result = "raise"
  /\ bk.notifs = <<"backup_error">> /\ ~bk.work_exists

\* the required names of the allow-list
RequiredNames == {"document.db", "config.ini", "session_secret.txt"}

\* C16: only the files of the allow-list are copied into the live directory,
\* each from the work directory the archive was extracted into, and nothing
\* else of the archive reaches the live directory; a restore that succeeds
\* has copied every required file, a restore that reaches the copy loop with
\* a required file missing from the archive fails, and a missing optional
\* file is skipped.
C16_OnlyAllowListCopied ==
  /\ rs.touched \subseteq AllowNames
  /\ rs.touched # {} => rs.work_created
  /\ \A n \in LiveNames :
        live[n] = IF n \in rs.touched THEN Extracted(rs.arch)[n] ELSE rs.live0[n]
  /\ rs.result = "true" =>
        /\ RequiredNames \subseteq rs.touched
        /\ rs.touched = {n \in AllowNames : Extracted(rs.arch)[n] # Absent}
  /\ (/\ rs.pc = "done" /\ rs.work_created /\ rs.result # "interrupt"
      /\ \E n \in RequiredNames : Extracted(rs.arch)[n] = Absent)
        => rs.result = "false"
C16_Witness ==
  /\ rs.pc = "done" /\ rs.result = "true"
  /\ Extracted(rs.arch)["document.db-shm"] = Absent
  /\ Extracted(rs.arch)["document.db-wal"] = Absent
  /\ rs.touched = RequiredNames
  /\ Extracted(rs.arch)[LOGFILE] = 1 /\ live[LOGFILE] = 0

\* C17: every failing exit of run_restore after the safety snapshot was made
\* (decryption, verification, extraction or copy failure, missing required
\* file) reports the path of the safety snapshot.
C17_FailureReportsSafetyPath ==
  (rs.pc = "done" /\ rs.result = "false" /\ rs.snapshot = "created") => rs.reported

\* C18: without force, a live file is overwritten only after the safety
\* snapshot of this run was completed, and it holds the live directory as it
\* was; when the snapshot copy fails without force, run_restore returns
\* failure with nothing decrypted, verified or touched; only with force does
\* a run go on past a failed snapshot.
C18_SnapshotBeforeOverwrite ==
  /\ (~rs.force /\ rs.touched # {}) =>
        /\ rs.snapshot = "created"
        /\ safety[rs.stamp] = [exists |-> TRUE, complete |-> TRUE, files |-> rs.live0]
  /\ (~rs.force /\ rs.snapshot = "failed") =>
        /\ rs.pc = "done" /\ rs.result = "false"
        /\ ~rs.decrypted /\ rs.verdict = NoVerdict /\ ~rs.work_created
        /\ rs.touched = {} /\ live = rs.live0
  /\ rs.pc \in {"decrypt", "verify", "mkdir", "extract", "copy"} =>
        (rs.snapshot = "created" \/ (rs.force /\ rs.snapshot = "failed"))
C18_Witness ==
  /\ ~rs.force /\ rs.touched # {} /\ rs.snapshot = "created"
  /\ live # rs.live0 /\ safety[rs.stamp].files = rs.live0

\* C19: a safety snapshot that was completed is never deleted or modified
\* afterwards: not by a later step of the restore that made it, not by a
\* later restore, not by a backup cycle and its local pruning.
C19_SnapshotNeverTouched ==
  [][\A t \in Stamps : safety[t].complete => safety'[t] = safety[t]]_vars
C19_Witness ==
  /\ safety["t1"] = [exists |-> TRUE, complete |-> TRUE, files |-> [n \in LiveNames |-> 0]]
  /\ rs.run = 2 /\ rs.stamp = "t1" /\ rs.pc = "done" /\ rs.force /\ rs.result = "true"
  /\ live # safety["t1"].files
  /\ bk.pc = "done" /\ bk.prune_local = "ok" /\ bk.old = {}

\* the operation the command line asked for succeeded, or there was nothing
\* to do
Succeeded ==
  CASE mn.request \in {"bare", "options_only"} -> TRUE
    [] mn.request = "list" -> mn.error = "none" /\ mn.listing \in {"none", "ok"}
    [] OTHER -> mn.called /\ rs.result = "true"

\* C20: main of the restore tool returns 0 exactly when the requested
\* operation succeeded or was a no-op, and 1 on every failure or
\* cancellation, a failed remote listing included.
C20_ExitCodeReflectsOutcome ==
  mn.pc = "done" => (mn.exit = "0" <=> Succeeded) /\ mn.exit \in {"0", "1"}

\* C21: when the restore tool is given --passphrase and the backup is
\* encrypted, the decryption step uses exactly that value, not the
\* environment key, and does not prompt.
C21_PassphraseArgumentUsed ==
  (mn.passphrase # "" /\ rs.encrypted /\ rs.used # "") =>
    (rs.used = mn.passphrase /\ ~rs.asked)

\* one of the fatal steps of the cycle raised: the database snapshot, the
\* archive builder, the encryption or an upload
FatalStepRaised ==
  \/ bk.sqlite \in {"absent", "fail", "timeout"}
  \/ bk.error # "none" /\ bk.sqlite = "ok" /\ bk.local = "partial"
  \/ bk.enc \in {"fail", "timeout"}
  \/ \E k \in DOMAIN bk.attempts : ~bk.attempts[k].ok

\* C22: a backup cycle that is over (and was not interrupted) has emitted
\* exactly one notification event: the failure event exactly when a fatal
\* step (snapshot, archive, encryption, upload) raised, and then the cycle
\* re-raised; the success event exactly when every step completed; whether
\* a transport delivered or failed changes neither.
C22_ExactlyOneNotification ==
  (bk.pc = "done" /\ bk.result # "interrupt") =>
    /\ Len(bk.notifs) = 1
    /\ bk.notifs[1] = "backup_error" <=> FatalStepRaised
    /\ bk.notifs[1] = "backup_error" <=> bk.result = "raise"
    /\ bk.notifs[1] = "backup_success" <=> bk.result = "ok"

\* C23: without force, run_restore overwrites no live file when the
\* application is running at the time of the pre-flight check, whatever the
\* container-status query does (answer, raise, time out, print nothing).
C23_NoOverwriteWhileRunning ==
  (~rs.force /\ rs.app_running) => (rs.touched = {} /\ live = rs.live0)

\* C24: the final artifact of a cycle is named trilium-backup-<timestamp>.tar.gz
\* without encryption and trilium-backup-<timestamp>.tar.gz.gpg with it, the
\* timestamp being the UTC instant at which the cycle started; so it matches
\* the pattern trilium-backup-* of the pruning steps and the restore listings.
C24_ArtifactName ==
  (bk.final # "none") =>
    /\ bk.final_path =
         Path(<<"trilium-backup-", strftime(bk.started)>>,
              IF bk.key THEN <<"tar", "gz", "gpg">> ELSE <<"tar", "gz">>)
    /\ fnmatch(bk.final_path)
C24_Witness ==
  /\ bk.key /\ bk.final = "gpg" /\ bk.now > bk.started
  /\ bk.final_path.suffixes = <<"tar", "gz", "gpg">>

\* C25: a run_restore that returns failure has overwritten no live file; in
\* particular, when config.ini or session_secret.txt is missing from the
\* archive, document.db and the side files before it were not copied.
C25_FailureLeavesLiveUntouched ==
  (rs.result = "false") => (rs.touched = {} /\ live = rs.live0)

\* C27: after a successful run_restore every allow-listed file of the live
\* directory has the content the archive holds for it, and an allow-listed
\* file the archive does not hold is absent from the live directory (no
\* document.db-wal or document.db-shm from before the restore remains).
C27_LiveEqualsArchive ==
  (rs.result = "true") =>
    \A n \in AllowNames : live[n] = Extracted(rs.arch)[n]

\* C26: an archive produced by a successful run_backup is accepted by
\* run_restore whenever the external tools succeed and the target is not
\* live, whatever data directory the backup accepted: a run_restore that
\* returns failure on such an archive was stopped before verification (a
\* pre-flight refusal, the snapshot or the cipher failing) or by an exception
\* of the extraction or of a copy, never by the archive's content.
C26_RoundTripAccepted ==
  (bk.result = "ok" /\ rs.result = "false") =>
    \/ rs.reported
    \/ ~rs.work_created /\ rs.verdict = NoVerdict

\* C28: with an encryption key configured, the only file handed to the upload
\* step is the encrypted archive, at the encrypted path and while the file
\* kept locally is the encrypted one; the plaintext archive is never
\* uploaded, and when the encryption did not succeed no upload is attempted.
C28_OnlyCiphertextUploaded ==
  bk.key =>
    /\ \A k \in DOMAIN bk.attempts : bk.attempts[k].file = "gpg"
    /\ bk.attempts # << >> =>
          bk.enc = "ok" /\ bk.final_path = encrypted_path(bk.archive_path)
    /\ bk.pc = "upload" => bk.local = "gpg"
C28_Witness ==
  /\ bk.key /\ Len(bk.attempts) = 2
  /\ bk.attempts[1].ok /\ bk.attempts[2].file = "gpg"

====
